---- MODULE Spec2Model ----
(***************************************************************************)
(* Model of the ESP32 soil humidity sensor reference program               *)
(* (src/src/main.rs): the calibration mapping raw_to_moisture_percent,     *)
(* the classifier get_soil_condition, the simulated sensor MockSoilSensor  *)
(* and the measurement loop of main.                                       *)
(*                                                                         *)
(* Five specifications share the variables:                                *)
(*   Spec          main as written, reading the MockSoilSensor;            *)
(*   LiveSpec      Spec with weak fairness of the single control thread;   *)
(*   FallibleSpec  main's loop with read_averaged's Result<u16> supplied   *)
(*                 by the environment (Ok(v) or Err), which exercises the  *)
(*                 Err arm that the mock can never take;                   *)
(*   SensorSpec    a MockSoilSensor driven by arbitrary calls of           *)
(*                 set_soil_condition and read_averaged at arbitrary times;*)
(*   FnSpec        the pure functions applied to every input.              *)
(***************************************************************************)
EXTENDS Integers, Sequences, FiniteSets, TLC

VARIABLES
    now,              \* the monotonic clock (Instant::now()), in ms
    base_value,       \* MockSoilSensor.base_value
    last_reading,     \* MockSoilSensor.last_reading, an instant in ms
    elapsed,          \* read_averaged: local `elapsed` of the last call (s)
    noise,            \* read_averaged: local `noise` of the last call (u16)
    op,               \* the sensor method the latest step called, if any
    pc,               \* position of the control thread
    blink,            \* main: startup loop counter
    i,                \* main: iterations of `for _ in 0..20` completed
    condition_index,  \* main: condition_index
    readings_count,   \* main: readings_count
    condition,        \* argument of the last set_soil_condition call
    result,           \* tag of the last read_averaged result
    sensor_value,     \* Ok arm: sensor_value
    moisture_percent, \* Ok arm: moisture_percent
    soil_condition,   \* Ok arm: soil_condition
    led_state,        \* Ok arm: led_state
    pump,             \* Ok arm: the pump branch taken
    n_reads,          \* calls of read_averaged made by main
    n_commands,       \* LED/pump decisions emitted (reading records logged)
    n_errors,         \* error records logged
    ticks             \* clock advances made by the sensor harness

vars == <<now, base_value, last_reading, elapsed, noise, op, pc, blink, i,
          condition_index, readings_count, condition, result, sensor_value,
          moisture_percent, soil_condition, led_state, pump, n_reads,
          n_commands, n_errors, ticks>>

sensorVars == <<base_value, last_reading, elapsed, noise>>
loopVars   == <<blink, i, condition_index, readings_count>>
armVars    == <<sensor_value, moisture_percent, soil_condition, led_state, pump>>
countVars  == <<n_reads, n_commands, n_errors>>

----------------------------------------------------------------------------
(* Program constants *)

DRY_SOIL == 3000
WET_SOIL == 1200
MOISTURE_LOW == 25
MOISTURE_HIGH == 75
READING_INTERVAL_MS == 2000
CYCLES == 20
SWITCH_EVERY == 5
STARTUP_BLINKS == 3
BLINK_SLEEP_MS == 200
NOISE_SPAN == 200
NOISE_OFFSET == 100
DEFAULT_BASE == 2400

U8  == 2^8
U16 == 2^16

DRY_LABEL     == "DRY - Need Water!"
WET_LABEL     == "WET - Too Much Water!"
OPTIMAL_LABEL == "OPTIMAL"

(* Bounds of the model *)

\* clock advances the sensor harness may make
MaxTicks == 3

\* how long a sleep may overrun its requested duration (ms)
Overruns == {0, 1000}

\* the harness's clock steps (ms): 1 s, 99 s, 100 s and 65436 s, whose sums
\* reach every edge of `elapsed as u16 % 200` and pass the u16 truncation
TickSteps == {1000, 99000, 100000, 65436000}

\* raw values at and around every branch and threshold of the pipeline
RawSamples == {0, 1200, 1201, 1632, 1633, 1650, 2100, 2550, 2551, 2999,
               3000, 4095, 65535}

\* arguments of set_soil_condition: the three named ones and two others
ConditionNames == {"dry", "optimal", "wet", "default", ""}

----------------------------------------------------------------------------
(* Fixed-width arithmetic *)

WrappingSubU16(a, b) == (a - b + U16) % U16
WrappingAddU16(a, b) == (a + b) % U16
AsU16(x) == x % U16

MulU16(a, b) == (a * b) % U16
\* a * b modulo 2^32, computed from the two 16-bit halves of the product
MulU32(a, b) ==
    LET p == a * b
    IN  (((p \div U16) % U16) * U16) + (p % U16)
AsU8(x) == x % U8
Min(a, b) == IF a <= b THEN a ELSE b

----------------------------------------------------------------------------
(* raw_to_moisture_percent *)

InterpolateRounded(raw_value) ==
    LET range  == WrappingSubU16(DRY_SOIL, WET_SOIL)
        offset == WrappingSubU16(DRY_SOIL, raw_value)
    IN  AsU8((MulU32(offset, 100) + range \div 2) \div range)

InterpolateInverted(raw_value) ==
    LET range  == WrappingSubU16(DRY_SOIL, WET_SOIL)
        offset == WrappingSubU16(raw_value, WET_SOIL)
    IN  AsU8(MulU32(offset, 100) \div range)

\* the else branch: ((offset as u32 * 100) / range as u32) as u8
Interpolate(raw_value) ==
    LET range  == WrappingSubU16(DRY_SOIL, WET_SOIL)
        offset == WrappingSubU16(DRY_SOIL, raw_value)
    IN  AsU8(MulU32(offset, 100) \div range)

raw_to_moisture_percent(raw_value) ==
    LET percentage ==
            IF raw_value >= DRY_SOIL THEN 0
            ELSE IF raw_value <= WET_SOIL THEN 100
            ELSE Interpolate(raw_value)
    IN  Min(percentage, 100)

----------------------------------------------------------------------------
(* get_soil_condition: <<label, LED state>> *)

get_soil_condition_inclusive(percent) ==
    IF percent <= MOISTURE_LOW THEN <<DRY_LABEL, TRUE>>
    ELSE IF percent >= MOISTURE_HIGH THEN <<WET_LABEL, FALSE>>
    ELSE <<OPTIMAL_LABEL, FALSE>>

get_soil_condition(percent) ==
    IF percent < MOISTURE_LOW THEN <<DRY_LABEL, TRUE>>
    ELSE IF percent > MOISTURE_HIGH THEN <<WET_LABEL, FALSE>>
    ELSE <<OPTIMAL_LABEL, FALSE>>

----------------------------------------------------------------------------
(* main, Ok arm: the pump branch *)

\* a pump that, once activated, stays on until the soil is too wet
PumpLatched(percent) ==
    IF percent < MOISTURE_LOW THEN "Activate"
    ELSE IF percent > MOISTURE_HIGH THEN "Deactivate"
    ELSE IF pump = "Activate" THEN "Activate"
    ELSE "NoChange"

PumpDecision(percent) ==
    IF percent < MOISTURE_LOW THEN "Activate"
    ELSE IF percent > MOISTURE_HIGH THEN "Deactivate"
    ELSE "NoChange"

\* the Ok(sensor_value) arm of main's match
OkArm(value) ==
    LET percent == raw_to_moisture_percent(value)
        cond    == get_soil_condition(percent)
    IN  /\ sensor_value' = value
        /\ moisture_percent' = percent
        /\ soil_condition' = cond[1]
        /\ led_state' = cond[2]
        /\ pump' = PumpDecision(percent)

----------------------------------------------------------------------------
(* MockSoilSensor *)

BaselineShifted(name) ==
    CASE name = "dry"     -> 2800
      [] name = "optimal" -> 2000
      [] name = "wet"     -> 1400
      [] OTHER            -> 2500

\* the match of set_soil_condition
Baseline(name) ==
    CASE name = "dry"     -> 2800
      [] name = "optimal" -> 2000
      [] name = "wet"     -> 1400
      [] OTHER            -> DEFAULT_BASE

\* self.last_reading.elapsed().as_secs()
ElapsedSecs == (now - last_reading) \div 1000

NoiseUnsigned(secs) == AsU16(secs) % NOISE_SPAN

\* noise left unsigned: the subtraction of the offset forgotten
NoiseUncentred(secs) == AsU16(secs) % NOISE_SPAN

\* (elapsed as u16 % 200).wrapping_sub(100)
Noise(secs) == WrappingSubU16(AsU16(secs) % NOISE_SPAN, NOISE_OFFSET)

\* self.base_value.wrapping_add(noise)
Reading(base, secs) == WrappingAddU16(base, Noise(secs))

\* a sensor whose baseline follows its readings
ReadAveragedDrifting ==
    /\ elapsed' = ElapsedSecs
    /\ noise' = Noise(ElapsedSecs)
    /\ last_reading' = now
    /\ base_value' = Reading(base_value, ElapsedSecs)
    /\ op' = "read_averaged"

\* the state change of read_averaged; the DefaultHasher it feeds is never
\* read and `_samples` is unused
ReadAveragedEffect ==
    /\ elapsed' = ElapsedSecs
    /\ noise' = Noise(ElapsedSecs)
    /\ last_reading' = now
    /\ base_value' = base_value
    /\ op' = "read_averaged"

SetSoilConditionEffect(name) ==
    /\ condition' = name
    /\ base_value' = Baseline(name)
    /\ op' = "set_soil_condition"
    /\ UNCHANGED <<last_reading, elapsed, noise>>

----------------------------------------------------------------------------
(* Initial states *)

\* MockSoilSensor::new() and the locals of main before the startup sequence
InitCommon ==
    /\ now = 0
    /\ base_value = DEFAULT_BASE
    /\ last_reading = 0
    /\ elapsed = 0
    /\ noise = 0
    /\ op = "new"
    /\ blink = 0
    /\ i = 0
    /\ condition_index = 0
    /\ readings_count = 0
    /\ condition = "none"
    /\ result = "none"
    /\ soil_condition = "none"
    /\ led_state = FALSE
    /\ pump = "none"
    /\ n_reads = 0
    /\ n_commands = 0
    /\ n_errors = 0
    /\ ticks = 0

Init ==
    /\ InitCommon
    /\ pc = "startup"
    /\ sensor_value = 0
    /\ moisture_percent = 0

\* the pure functions applied to one input: a raw value in all of u16, or a
\* percentage in all of u8 handed to the classifier directly
FnInit ==
    /\ InitCommon
    /\ \/ /\ pc = "fn_raw"
          /\ sensor_value \in 0 .. U16 - 1
          /\ moisture_percent = 0
       \/ /\ pc = "fn_percent"
          /\ sensor_value = 0
          /\ moisture_percent \in 0 .. U8 - 1

----------------------------------------------------------------------------
(* main *)

\* the conditions array of main (1-based here)
conditions_reordered == <<"dry", "wet", "optimal", "wet">>

conditions == <<"dry", "optimal", "wet", "optimal">>

\* `readings_count % 5 == 0`
SwitchDueEveryFourth(count) == count % (SWITCH_EVERY - 1) = 0

SwitchDue(count) == count % SWITCH_EVERY = 0

\* the range test of `for _ in 0..20`
LoopContinuesInclusive(k) == k <= CYCLES

LoopContinues(k) == k < CYCLES

\* one pass of the startup blink loop: two sleeps of 200 ms
Blink ==
    /\ pc = "startup"
    /\ blink < STARTUP_BLINKS
    /\ \E o \in Overruns : now' = now + 2 * BLINK_SLEEP_MS + o
    /\ blink' = blink + 1
    /\ op' = "none"
    /\ UNCHANGED <<sensorVars, pc, i, condition_index, readings_count,
                   condition, result, armVars, countVars, ticks>>

StartMeasuring ==
    /\ pc = "startup"
    /\ blink = STARTUP_BLINKS
    /\ pc' = "loop"
    /\ op' = "none"
    /\ UNCHANGED <<now, sensorVars, loopVars, condition, result, armVars,
                   countVars, ticks>>

\* head of an iteration in which the simulated condition changes
LoopSwitch ==
    /\ pc = "loop"
    /\ LoopContinues(i)
    /\ SwitchDue(readings_count)
    /\ SetSoilConditionEffect(conditions[(condition_index % Len(conditions)) + 1])
    /\ condition_index' = condition_index + 1
    /\ pc' = "read"
    /\ UNCHANGED <<now, blink, i, readings_count, result, armVars, countVars,
                   ticks>>

LoopNoSwitch ==
    /\ pc = "loop"
    /\ LoopContinues(i)
    /\ ~SwitchDue(readings_count)
    /\ pc' = "read"
    /\ op' = "none"
    /\ UNCHANGED <<now, sensorVars, loopVars, condition, result, armVars,
                   countVars, ticks>>

\* the range is exhausted: the closing banner, Ok(())
LoopExit ==
    /\ pc = "loop"
    /\ ~LoopContinues(i)
    /\ pc' = "done"
    /\ op' = "none"
    /\ UNCHANGED <<now, sensorVars, loopVars, condition, result, armVars,
                   countVars, ticks>>

\* sensor.read_averaged(5) on the MockSoilSensor, which returns Ok(reading),
\* then the Ok arm and readings_count += 1
Read ==
    /\ pc = "read"
    /\ ReadAveragedEffect
    /\ result' = "Ok"
    /\ OkArm(Reading(base_value, ElapsedSecs))
    /\ n_reads' = n_reads + 1
    /\ n_commands' = n_commands + 1
    /\ readings_count' = readings_count + 1
    /\ pc' = "sleep"
    /\ UNCHANGED <<now, blink, i, condition_index, condition, n_errors, ticks>>

\* the match on a Result<u16> that the sensor source hands back: Ok(value)
ReadOkFrom ==
    /\ pc = "read"
    /\ \E value \in RawSamples : OkArm(value)
    /\ result' = "Ok"
    /\ n_reads' = n_reads + 1
    /\ n_commands' = n_commands + 1
    /\ readings_count' = readings_count + 1
    /\ pc' = "sleep"
    /\ op' = "none"
    /\ UNCHANGED <<now, sensorVars, blink, i, condition_index, condition,
                   n_errors, ticks>>

\* an error that leaves main, as `sensor.read_averaged(5)?` would
ErrArmFatal ==
    /\ pc = "read"
    /\ result' = "Err"
    /\ n_reads' = n_reads + 1
    /\ n_errors' = n_errors + 1
    /\ pc' = "done"
    /\ op' = "none"
    /\ UNCHANGED <<now, sensorVars, loopVars, condition, armVars, n_commands,
                   ticks>>

\* the Err(e) arm: an error record, nothing else, then readings_count += 1

ErrArm ==
    /\ pc = "read"
    /\ result' = "Err"
    /\ n_reads' = n_reads + 1
    /\ n_errors' = n_errors + 1
    /\ readings_count' = readings_count + 1
    /\ pc' = "sleep"
    /\ op' = "none"
    /\ UNCHANGED <<now, sensorVars, blink, i, condition_index, condition,
                   armVars, n_commands, ticks>>

\* thread::sleep(READING_INTERVAL_MS), which lasts at least that long, and
\* the step of the for loop
Sleep ==
    /\ pc = "sleep"
    /\ \E o \in Overruns : now' = now + READING_INTERVAL_MS + o
    /\ i' = i + 1
    /\ pc' = "loop"
    /\ op' = "none"
    /\ UNCHANGED <<sensorVars, blink, condition_index, readings_count,
                   condition, result, armVars, countVars, ticks>>

Next ==
    \/ Blink
    \/ StartMeasuring
    \/ LoopSwitch
    \/ LoopNoSwitch
    \/ LoopExit
    \/ Read
    \/ Sleep

Spec == Init /\ [][Next]_vars

\* one thread that is always scheduled and whose sleeps return
LiveSpec == Spec /\ WF_vars(Next)

FallibleNext ==
    \/ Blink
    \/ StartMeasuring
    \/ LoopSwitch
    \/ LoopNoSwitch
    \/ LoopExit
    \/ ReadOkFrom
    \/ ErrArm
    \/ Sleep

FallibleSpec == Init /\ [][FallibleNext]_vars

----------------------------------------------------------------------------
(* A MockSoilSensor under arbitrary calls *)

SensorInit ==
    /\ InitCommon
    /\ pc = "harness"
    /\ sensor_value = 0
    /\ moisture_percent = 0

\* time passes between two calls
Tick ==
    /\ pc = "harness"
    /\ ticks < MaxTicks
    /\ \E d \in TickSteps : now' = now + d
    /\ ticks' = ticks + 1
    /\ op' = "none"
    /\ UNCHANGED <<sensorVars, pc, loopVars, condition, result, armVars,
                   countVars>>

CallSetSoilCondition ==
    /\ pc = "harness"
    /\ \E name \in ConditionNames : SetSoilConditionEffect(name)
    /\ UNCHANGED <<now, pc, loopVars, result, armVars, countVars, ticks>>

\* read_averaged, its value fed through the conversion and the classifier
CallReadAveraged ==
    /\ pc = "harness"
    /\ ReadAveragedEffect
    /\ result' = "Ok"
    /\ OkArm(Reading(base_value, ElapsedSecs))
    /\ UNCHANGED <<now, pc, loopVars, condition, countVars, ticks>>

SensorNext ==
    \/ Tick
    \/ CallSetSoilCondition
    \/ CallReadAveraged

SensorSpec == SensorInit /\ [][SensorNext]_vars

----------------------------------------------------------------------------
(* The pure functions on their whole domains *)

FnConvert ==
    /\ pc = "fn_raw"
    /\ moisture_percent' = raw_to_moisture_percent(sensor_value)
    /\ pc' = "fn_mapped"
    /\ UNCHANGED <<now, sensorVars, op, loopVars, condition, result,
                   sensor_value, soil_condition, led_state, pump, countVars,
                   ticks>>

FnClassify ==
    /\ pc \in {"fn_mapped", "fn_percent"}
    /\ soil_condition' = get_soil_condition(moisture_percent)[1]
    /\ led_state' = get_soil_condition(moisture_percent)[2]
    /\ pc' = IF pc = "fn_mapped" THEN "fn_done" ELSE "fn_classified"
    /\ UNCHANGED <<now, sensorVars, op, loopVars, condition, result,
                   sensor_value, moisture_percent, pump, countVars, ticks>>

FnNext ==
    \/ FnConvert
    \/ FnClassify

FnSpec == FnInit /\ [][FnNext]_vars

----------------------------------------------------------------------------
(* Properties *)

\* the calibration mapping as the design states it, in unbounded integers
RefPercent(raw) ==
    IF raw >= 3000 THEN 0
    ELSE IF raw <= 1200 THEN 100
    ELSE ((3000 - raw) * 100) \div (3000 - 1200)

\* C1: for every u16 raw reading raw_to_moisture_percent returns the
\* piecewise reference value: 0 from 3000 up, 100 up to 1200, and the floor
\* of (3000 - raw) * 100 / 1800 in between; 2100 gives 50.
C1_PiecewiseReference ==
    pc \in {"fn_mapped", "fn_done"} =>
        /\ moisture_percent = RefPercent(sensor_value)
        /\ sensor_value = 2100 => moisture_percent = 50

C1_Midpoint ==
    pc = "fn_mapped" /\ sensor_value = 2100 /\ moisture_percent = 50

\* C2: for every u16 input the output lies in 0..100, and in the
\* interpolation branch nothing is lost: the u16 subtraction does not wrap,
\* the product offset * 100 fits in 32 bits and the quotient fits in 8 bits.
C2_NoOverflow ==
    pc \in {"fn_mapped", "fn_done"} =>
        /\ moisture_percent \in 0 .. 100
        /\ (WET_SOIL < sensor_value /\ sensor_value < DRY_SOIL) =>
              LET offset   == DRY_SOIL - sensor_value
                  quotient == (offset * 100) \div (DRY_SOIL - WET_SOIL)
              IN  /\ WrappingSubU16(DRY_SOIL, sensor_value) = offset
                  /\ MulU32(offset, 100) = offset * 100
                  /\ AsU8(quotient) = quotient
                  /\ moisture_percent = quotient

\* the largest product of the branch, which needs more than 16 bits
C2_WideProduct ==
    /\ pc = "fn_mapped"
    /\ sensor_value = WET_SOIL + 1
    /\ (DRY_SOIL - sensor_value) * 100 >= U16
    /\ moisture_percent = 99

\* C3: get_soil_condition gives every percentage exactly one of the three
\* conditions: Dry with the LED on below 25, Wet with the LED off above 75,
\* Optimal with the LED off from 25 to 75 inclusive; the LED is on exactly
\* when the condition is Dry. (Checked on all of u8, which contains 0..100.)
C3_Classifier ==
    pc \in {"fn_done", "fn_classified"} =>
        /\ soil_condition \in {DRY_LABEL, OPTIMAL_LABEL, WET_LABEL}
        /\ soil_condition = DRY_LABEL <=> moisture_percent < 25
        /\ soil_condition = WET_LABEL <=> moisture_percent > 75
        /\ soil_condition = OPTIMAL_LABEL <=>
              (25 <= moisture_percent /\ moisture_percent <= 75)
        /\ led_state <=> soil_condition = DRY_LABEL

C3_LowBoundaryOptimal ==
    /\ pc = "fn_classified"
    /\ moisture_percent = 25
    /\ soil_condition = OPTIMAL_LABEL
    /\ ~led_state

\* C4: after a successful read the pump branch taken is a function of that
\* cycle's percentage alone: Activate exactly below 25, Deactivate exactly
\* above 75, none otherwise, whatever the earlier cycles did.
C4_PumpStateless ==
    result = "Ok" =>
        /\ moisture_percent = RefPercent(sensor_value)
        /\ pump \in {"Activate", "Deactivate", "NoChange"}
        /\ pump = "Activate" <=> moisture_percent < 25
        /\ pump = "Deactivate" <=> moisture_percent > 75
        /\ pump = "NoChange" <=>
              (25 <= moisture_percent /\ moisture_percent <= 75)

\* a later cycle whose percentage sits on the low threshold
C4_BoundaryNoChange ==
    /\ pc = "sleep"
    /\ i >= 1
    /\ result = "Ok"
    /\ moisture_percent = 25
    /\ pump = "NoChange"

\* C5: with the mock sensor the 20-iteration loop emits one decision per
\* cycle, never more than 20, and ends stopped with exactly 20 emitted.
C5_ExactlyN ==
    /\ [](/\ n_commands <= CYCLES
          /\ i <= CYCLES
          /\ n_errors = 0
          /\ pc \in {"loop", "read"} => n_commands = i
          /\ pc = "sleep" => n_commands = i + 1
          /\ pc = "done" => (n_commands = CYCLES /\ i = CYCLES))
    /\ <>[](pc = "done")

C5_Stopped ==
    pc = "done" /\ n_commands = CYCLES /\ n_reads = CYCLES

\* C6: a failed read logs one error record and nothing else, is the only
\* read of its cycle, and the loop goes on to its sleep; failures neither end
\* the loop nor reduce the number of cycles.
C6_ErrorNonFatal ==
    /\ [](/\ n_reads = n_commands + n_errors
          /\ pc \in {"loop", "read"} => n_reads = i
          /\ pc = "sleep" => n_reads = i + 1
          /\ pc = "done" => (i = CYCLES /\ n_reads = CYCLES))
    /\ [][(result' = "Err" /\ n_reads' # n_reads) =>
              /\ n_reads' = n_reads + 1
              /\ n_errors' = n_errors + 1
              /\ n_commands' = n_commands
              /\ armVars' = armVars
              /\ i' = i
              /\ pc' = "sleep"]_vars

\* every read failed and all 20 cycles were still run
C6_AllFailed ==
    /\ pc = "done"
    /\ result = "Err"
    /\ n_errors = CYCLES
    /\ n_commands = 0
    /\ i = CYCLES

\* what the three named conditions must classify as
ExpectedLabel(name) ==
    CASE name = "dry"     -> DRY_LABEL
      [] name = "optimal" -> OPTIMAL_LABEL
      [] name = "wet"     -> WET_LABEL

\* elapsed times reaching every value of `elapsed as u16 % 200`, twice over
AllResidues == 0 .. (2 * NOISE_SPAN - 1)

\* a raw value within 100 of the current baseline that the pipeline gives
\* the label of the condition set last
InBandAndClass(value) ==
    /\ base_value - 100 <= value
    /\ value <= base_value + 100
    /\ condition \in {"dry", "optimal", "wet"} =>
          get_soil_condition(raw_to_moisture_percent(value))[1]
              = ExpectedLabel(condition)

\* C7 as amended: whatever time has elapsed, the value read is the
\* baseline plus (elapsed as u16 % 200) - 100 in unbounded integers, so it
\* lies within 100 of the baseline and the result is never a wrapped one;
\* after "dry", "optimal" or "wet" was set every reading classifies as that
\* condition, also one taken now after any of 0..399 further seconds.
C7_BandAndClass ==
    op = "read_averaged" =>
        /\ sensor_value = base_value + NoiseUnsigned(elapsed) - NOISE_OFFSET
        /\ base_value - 100 <= sensor_value
        /\ sensor_value <= base_value + 100
        /\ condition \in {"dry", "optimal", "wet"} =>
              soil_condition = ExpectedLabel(condition)
        /\ \A secs \in AllResidues : InBandAndClass(Reading(base_value, secs))

\* C7 as claimed: in addition neither wrapping operation wraps, that is
\* the subtraction of 100 stays at or above 0 and the addition below 2^16.
C7_NeverWraps ==
    op = "read_averaged" =>
        /\ sensor_value = base_value + NoiseUnsigned(elapsed) - NOISE_OFFSET
        /\ base_value - 100 <= sensor_value
        /\ sensor_value <= base_value + 100
        /\ condition \in {"dry", "optimal", "wet"} =>
              soil_condition = ExpectedLabel(condition)
        /\ \A secs \in AllResidues : InBandAndClass(Reading(base_value, secs))
        /\ noise = NoiseUnsigned(elapsed) - NOISE_OFFSET
        /\ sensor_value = base_value + noise

\* a wet reading taken 65536 s after the previous one: the cast to u16
\* truncates to 0, both operations wrap, the value is the baseline less 100
C7_WetAtLowEdge ==
    /\ op = "read_averaged"
    /\ condition = "wet"
    /\ elapsed = U16
    /\ noise = U16 - NOISE_OFFSET
    /\ sensor_value = 1300
    /\ soil_condition = WET_LABEL

\* C8: the mapping does not increase inside the calibration window: for
\* 1200 < raw1 < raw2 < 3000 the percentage of raw1 is at least that of raw2.
C8_Monotone ==
    (pc = "fn_mapped" /\ WET_SOIL < sensor_value /\ sensor_value < DRY_SOIL) =>
        \A raw2 \in (sensor_value + 1) .. (DRY_SOIL - 1) :
            moisture_percent >= raw_to_moisture_percent(raw2)

C8_StrictPair ==
    /\ pc = "fn_mapped"
    /\ sensor_value = 2082
    /\ moisture_percent = 51
    /\ raw_to_moisture_percent(2100) = 50

\* C9: base_value is always one of 2800, 2000, 1400, 2400; read_averaged
\* leaves it alone and sets last_reading to the current instant;
\* set_soil_condition leaves last_reading alone; nothing else changes
\* either field.
C9_Frame ==
    /\ [](base_value \in {2800, 2000, 1400, 2400})
    /\ [][/\ op' = "read_averaged" =>
                (base_value' = base_value /\ last_reading' = now')
          /\ op' = "set_soil_condition" =>
                (last_reading' = last_reading
                 /\ base_value' \in {2800, 2000, 1400, 2400})
          /\ base_value' # base_value => op' = "set_soil_condition"
          /\ last_reading' # last_reading => op' = "read_averaged"]_vars

\* the default arm taken after a named condition, then a read later on
C9_DefaultThenRead ==
    /\ op = "read_averaged"
    /\ condition = "default"
    /\ base_value = 2400
    /\ last_reading = now
    /\ now > 0

\* the condition in force during cycle k of the run, 1 <= k <= 20
RegimeOfCycle(k) ==
    IF k <= 5 THEN "dry"
    ELSE IF k <= 10 THEN "optimal"
    ELSE IF k <= 15 THEN "wet"
    ELSE "optimal"

BaseOfCycle(k) ==
    IF k <= 5 THEN 2800
    ELSE IF k <= 10 THEN 2000
    ELSE IF k <= 15 THEN 1400
    ELSE 2000

\* C10: in the 20-cycle run the condition is switched at the head of cycles
\* 1, 6, 11 and 16 and at no other step, in the order dry, optimal, wet,
\* optimal; cycles 1-5 emit Dry / LED on / Activate, 6-10 and 16-20 Optimal
\* / LED off / no pump action, 11-15 Wet / LED off / Deactivate; the
\* baseline 2400 of construction is never read.
C10_Schedule ==
    /\ [](/\ pc = "loop" => condition_index = (i + 4) \div 5
          /\ pc = "done" => condition_index = 4
          /\ pc \in {"read", "sleep"} =>
                /\ condition_index = (i \div 5) + 1
                /\ condition = RegimeOfCycle(i + 1)
                /\ base_value = BaseOfCycle(i + 1)
                /\ base_value # 2400
          /\ pc = "sleep" =>
                /\ soil_condition = ExpectedLabel(RegimeOfCycle(i + 1))
                /\ led_state <=> RegimeOfCycle(i + 1) = "dry"
                /\ pump = CASE RegimeOfCycle(i + 1) = "dry" -> "Activate"
                            [] RegimeOfCycle(i + 1) = "wet" -> "Deactivate"
                            [] OTHER -> "NoChange")
    /\ [][(base_value' # base_value \/ condition' # condition
           \/ condition_index' # condition_index) =>
              /\ pc = "loop"
              /\ pc' = "read"
              /\ i \in {0, 5, 10, 15}
              /\ condition_index' = condition_index + 1]_vars

\* cycle 11, the first after the switch to wet
C10_FirstWetCycle ==
    /\ pc = "sleep"
    /\ i = 10
    /\ condition = "wet"
    /\ soil_condition = WET_LABEL
    /\ ~led_state
    /\ pump = "Deactivate"

====
